---------------------------- MODULE Spec2Model ----------------------------
(***************************************************************************)
(* A model of grpc-build's src/lib.rs: the Builder's build pipeline, the   *)
(* extern path filter (include_ident), the name-accessor generation        *)
(* (generate_impls / derive_named_messages) and the write step of          *)
(* generate_services.                                                      *)
(*                                                                         *)
(* Strings are sequences of one-character strings, so that slicing,        *)
(* trimming and concatenation are computed as the code computes them.      *)
(***************************************************************************)
EXTENDS Integers, Sequences, FiniteSets, TLC

VARIABLES
    \* ---- include_ident call (SpecIdent)
    identPc, pb_ident, extern_paths, identResult,
    \* ---- generate_impls call (SpecImpls)
    implPc, file, implExtern, prost_types, kept, impls,
    \* ---- Builder::build call (Spec)
    pc, force, outDirExists, files, modrs, protocOut, tmpDescriptor, modules,
    modIdx, buildImpls, result, fsLog, runs,
    \* ---- module declarations of mod.rs (SpecTree)
    treePc, packages, tree, emitted

identVars == <<identPc, pb_ident, extern_paths, identResult>>
implVars == <<implPc, file, implExtern, prost_types, kept, impls>>
buildVars == <<pc, force, outDirExists, files, modrs, protocOut, tmpDescriptor,
               modules, modIdx, buildImpls, result, fsLog, runs>>
treeVars == <<treePc, packages, tree, emitted>>
vars == <<identVars, implVars, buildVars, treeVars>>

-----------------------------------------------------------------------------
(* Bounds *)

\* longest identifier enumerated exhaustively for include_ident
MaxIdentLen == 4

\* most file descriptors in a descriptor set handed to generate_impls
MaxFiles == 2

\* most calls of Builder::build on the same output directory
MaxRuns == 2

-----------------------------------------------------------------------------
(* Strings *)

RECURSIVE Concat(_)
\* the concatenation of a sequence of strings
Concat(ss) == IF ss = <<>> THEN <<>> ELSE Head(ss) \o Concat(Tail(ss))

\* all strings over alphabet A of length at most n
StringsUpTo(A, n) == UNION {[1..k -> A] : k \in 0..n}

\* &s[..idx] with a 0-based byte index idx
SliceTo(s, idx) == SubSeq(s, 1, idx)

\* s.starts_with(p)
StartsWith(s, p) == Len(p) <= Len(s) /\ SubSeq(s, 1, Len(p)) = p

-----------------------------------------------------------------------------
(* Builder::include_ident, lib.rs 158-170 *)

RECURSIVE rmatch_scan(_, _, _)
\* the loop over pb_ident.rmatch_indices('.'): the 0-based indices idx of the
\* dots, from the last to the first; i is the 1-based position examined
rmatch_scan(E, s, i) ==
    IF i = 0 THEN TRUE
    ELSE IF s[i] = "." /\ SliceTo(s, i - 1) \in E THEN FALSE
    ELSE rmatch_scan(E, s, i - 1)

\* a filter that matches extern paths as plain textual prefixes
include_ident_textual(E, s) ==
    ~ \E e \in E : StartsWith(s, e)

include_ident(E, s) ==
    IF s \in E THEN FALSE
    ELSE rmatch_scan(E, s, Len(s))

-----------------------------------------------------------------------------
(* to_upper_camel, lib.rs 222-231 (heck's ToUpperCamelCase) *)

LowerChars ==
    <<"a", "b", "c", "d", "e", "f", "g", "h", "i", "j", "k", "l", "m", "n", "o",
      "p", "q", "r", "s", "t", "u", "v", "w", "x", "y", "z">>

UpperChars ==
    <<"A", "B", "C", "D", "E", "F", "G", "H", "I", "J", "K", "L", "M", "N", "O",
      "P", "Q", "R", "S", "T", "U", "V", "W", "X", "Y", "Z">>

DigitChars == <<"0", "1", "2", "3", "4", "5", "6", "7", "8", "9">>

Range(f) == {f[i] : i \in DOMAIN f}

LowerSet == Range(LowerChars)
UpperSet == Range(UpperChars)
DigitSet == Range(DigitChars)

\* char::is_lowercase, is_uppercase, is_alphanumeric on ASCII
IsLower(c) == c \in LowerSet
IsUpper(c) == c \in UpperSet
IsAlphanumeric(c) == IsLower(c) \/ IsUpper(c) \/ c \in DigitSet

IndexIn(cs, c) == CHOOSE i \in DOMAIN cs : cs[i] = c

ToUpperChar(c) == IF IsLower(c) THEN UpperChars[IndexIn(LowerChars, c)] ELSE c
ToLowerChar(c) == IF IsUpper(c) THEN LowerChars[IndexIn(UpperChars, c)] ELSE c

\* heck's capitalize: the first character upper-cased, the rest lower-cased
capitalize(w) ==
    [i \in DOMAIN w |-> IF i = 1 THEN ToUpperChar(w[i]) ELSE ToLowerChar(w[i])]

RECURSIVE camel_scan(_, _, _, _)
\* heck's transform over one alphanumeric run w: i is the character examined,
\* init the start of the current word, mode the case of the previous character
camel_scan(w, i, init, mode) ==
    IF i > Len(w) THEN <<>>
    ELSE IF i = Len(w) THEN capitalize(SubSeq(w, init, Len(w)))
    ELSE LET c == w[i]
             next == w[i + 1]
             next_mode == IF IsLower(c) THEN "lower"
                          ELSE IF IsUpper(c) THEN "upper"
                          ELSE mode
         IN  IF next_mode = "lower" /\ IsUpper(next)
             THEN capitalize(SubSeq(w, init, i))
                      \o camel_scan(w, i + 1, i + 1, "boundary")
             ELSE IF mode = "upper" /\ IsUpper(c) /\ IsLower(next)
             THEN capitalize(SubSeq(w, init, i - 1))
                      \o camel_scan(w, i + 1, i, "boundary")
             ELSE camel_scan(w, i + 1, init, next_mode)

RECURSIVE split_runs(_, _)
\* s.split(|c| !c.is_alphanumeric()): cur is the run collected so far
split_runs(s, cur) ==
    IF s = <<>> THEN <<cur>>
    ELSE IF IsAlphanumeric(Head(s)) THEN split_runs(Tail(s), Append(cur, Head(s)))
    ELSE <<cur>> \o split_runs(Tail(s), <<>>)

to_upper_camel_case(s) ==
    LET runs_ == split_runs(s, <<>>)
    IN  Concat([k \in DOMAIN runs_ |-> camel_scan(runs_[k], 1, 1, "boundary")])

to_upper_camel(s) ==
    LET ident == to_upper_camel_case(s)
    IN  IF ident = <<"S", "e", "l", "f">> THEN ident \o <<"_">> ELSE ident

-----------------------------------------------------------------------------
(* fully_qualified_name, fully_qualified_type_path, lib.rs 195-205 *)

fully_qualified_name(namespace, name) ==
    LET prefix == IF namespace = <<>> THEN <<>> ELSE <<".">>
    IN  prefix \o namespace \o <<".">> \o name

\* namespace.replace('.', "::")
replace_dots(namespace) ==
    Concat([i \in DOMAIN namespace |->
              IF namespace[i] = "." THEN <<":", ":">> ELSE <<namespace[i]>>])

fully_qualified_type_path(namespace, name) ==
    LET prefix == IF namespace = <<>> THEN <<>> ELSE <<":", ":">>
    IN  prefix \o replace_dots(namespace) \o <<":", ":">> \o to_upper_camel(name)

RECURSIVE trim_start_matches(_, _)
\* s.trim_start_matches(pat): every leading repetition of pat removed
trim_start_matches(s, pat) ==
    IF pat # <<>> /\ StartsWith(s, pat)
    THEN trim_start_matches(SubSeq(s, Len(pat) + 1, Len(s)), pat)
    ELSE s

-----------------------------------------------------------------------------
(* derive_named_messages, lib.rs 174-193 *)

\* char::escape_debug for the characters a string literal must escape
escape_debug(c) ==
    IF c = "\"" THEN <<"\\", "\"">>
    ELSE IF c = "\\" THEN <<"\\", "\\">>
    ELSE IF c = "\n" THEN <<"\\", "n">>
    ELSE <<c>>

\* format!("{s:?}"): the quoted, escaped literal of s
fmt_debug(s) ==
    <<"\"">> \o Concat([i \in DOMAIN s |-> escape_debug(s[i])]) \o <<"\"">>

ImplOpen == <<"\n", "i", "m", "p", "l", " ">>

ImplBody ==
    <<" ", "{", "\n", " ", " ", " ", " ", "p", "u", "b", " ", "f", "n", " ",
      "m", "e", "s", "s", "a", "g", "e", "_", "n", "a", "m", "e", "(", ")", " ",
      "-", ">", " ", "&", "'", "s", "t", "a", "t", "i", "c", " ", "s", "t", "r",
      " ", "{", "\n", " ", " ", " ", " ", " ", " ", " ", " ">>

ImplClose == <<"\n", " ", " ", " ", " ", "}", "\n", "}">>

\* an accessor whose literal is built from the converted type name
derive_cased(namespace, name) ==
    LET fq_name == fully_qualified_name(namespace, name)
        cased == fully_qualified_name(namespace, to_upper_camel(name))
        fq_type_path == fully_qualified_type_path(namespace, name)
    IN  [name |-> fq_name,
         derive |-> ImplOpen \o trim_start_matches(fq_type_path, <<":", ":">>)
                      \o ImplBody
                      \o fmt_debug(trim_start_matches(cased, <<".">>))
                      \o ImplClose]

\* the closure body: one message of a file with package `namespace`
derive(namespace, name) ==
    LET fq_name == fully_qualified_name(namespace, name)
        message_name == trim_start_matches(fq_name, <<".">>)
        fq_type_path == fully_qualified_type_path(namespace, name)
        type_path == trim_start_matches(fq_type_path, <<":", ":">>)
    IN  [name |-> fq_name,
         derive |-> ImplOpen \o type_path \o ImplBody
                      \o fmt_debug(message_name) \o ImplClose]

\* descriptor.message_type.iter().map(...)
derive_named_messages(descriptor) ==
    [i \in DOMAIN descriptor.message_type |->
        derive(descriptor.package, descriptor.message_type[i])]

-----------------------------------------------------------------------------
(* add_prost_types, lib.rs 207-219 *)

GoogleProtobuf ==
    <<".", "g", "o", "o", "g", "l", "e", ".", "p", "r", "o", "t", "o", "b", "u", "f">>

WellKnownNames ==
    { <<"B", "o", "o", "l", "V", "a", "l", "u", "e">>,
      <<"B", "y", "t", "e", "s", "V", "a", "l", "u", "e">>,
      <<"D", "o", "u", "b", "l", "e", "V", "a", "l", "u", "e">>,
      <<"E", "m", "p", "t", "y">>,
      <<"F", "l", "o", "a", "t", "V", "a", "l", "u", "e">>,
      <<"I", "n", "t", "3", "2", "V", "a", "l", "u", "e">>,
      <<"I", "n", "t", "6", "4", "V", "a", "l", "u", "e">>,
      <<"S", "t", "r", "i", "n", "g", "V", "a", "l", "u", "e">>,
      <<"U", "I", "n", "t", "3", "2", "V", "a", "l", "u", "e">>,
      <<"U", "I", "n", "t", "6", "4", "V", "a", "l", "u", "e">> }

add_prost_types(paths) ==
    paths \cup {GoogleProtobuf}
          \cup {GoogleProtobuf \o <<".">> \o n : n \in WellKnownNames}

-----------------------------------------------------------------------------
(* Builder::generate_impls, lib.rs 100-111 *)

\* file.iter().flat_map(derive_named_messages)
flat_map_derive(fileSeq) ==
    Concat([k \in DOMAIN fileSeq |-> derive_named_messages(fileSeq[k])])

\* .filter_map(|(name, derive)| self.include_ident(&name).then(|| derive))
filter_map_ident(paths, pairs) ==
    LET passing == SelectSeq(pairs, LAMBDA d : include_ident(paths, d.name))
    IN  [i \in DOMAIN passing |-> passing[i].derive]

\* generate_impls that filters against the configured paths only
generate_impls_unregistered(fileSeq, paths, flag) ==
    [extern_paths |-> paths,
     kept |-> filter_map_ident(paths, flat_map_derive(fileSeq))]

\* the extern paths after the call, and the items collected into the String
generate_impls(fileSeq, paths, flag) ==
    LET registered == IF flag THEN add_prost_types(paths) ELSE paths
    IN  [extern_paths |-> registered,
         kept |-> filter_map_ident(registered, flat_map_derive(fileSeq))]

-----------------------------------------------------------------------------
(* The filesystem seen by Builder::build *)

\* the files prost names for the generated modules (Module::to_file_name_or)
FileNames == {"_.rs", "a.b.rs"}

\* generated bodies
Contents == {"v1", "v2"}

\* accessor texts returned by generate_impls
ImplTexts == {"impls1", "impls2"}

Absent == [kind |-> "absent", bytes |-> "none"]

\* a directory entry: a regular file, a file whose read is denied, a file
\* whose write is denied, a directory at the path, or nothing
Entries ==
    {Absent} \cup
    [kind : {"file", "unreadable", "readonly", "dir"}, bytes : Contents]

\* std::fs::read(&output_path), lib.rs 144
fs_read(entry) ==
    IF entry.kind = "absent" THEN [ok |-> FALSE, error |-> "NotFound", bytes |-> "none"]
    ELSE IF entry.kind = "unreadable"
         THEN [ok |-> FALSE, error |-> "PermissionDenied", bytes |-> "none"]
    ELSE IF entry.kind = "dir"
         THEN [ok |-> FALSE, error |-> "IsADirectory", bytes |-> "none"]
    ELSE [ok |-> TRUE, error |-> "none", bytes |-> entry.bytes]

\* whether std::fs::write(output_path, content) succeeds, lib.rs 151
fs_write_ok(entry) == entry.kind \in {"absent", "file", "unreadable"}

\* the entry after a successful std::fs::write
fs_written(entry, content) ==
    [kind |-> IF entry.kind = "absent" THEN "file" ELSE entry.kind,
     bytes |-> content]

\* previous_content.map(|p| p != content.as_bytes()).unwrap_or(true),
\* lib.rs 147-150
content_changed(previous_content, content) ==
    IF previous_content.ok THEN previous_content.bytes # content ELSE TRUE

Event(op, path) == [op |-> op, path |-> path]

ModAbsent == [exists |-> FALSE, text |-> <<>>]

\* the module lists prost's generate can return: distinct modules, in the
\* iteration order of its map
ModuleLists ==
    {<<>>}
    \cup {<<[file_name |-> f, content |-> c]>> : f \in FileNames, c \in Contents}
    \cup {<<[file_name |-> f, content |-> c], [file_name |-> g, content |-> d]>> :
            <<f, g>> \in {fg \in FileNames \X FileNames : fg[1] # fg[2]},
            <<c, d>> \in Contents \X Contents}

-----------------------------------------------------------------------------
(* Builder::build, lib.rs 18-46, and the functions it calls *)

\* an error return out of compile: the TempDir is dropped on the way
CompileFails(stage) ==
    /\ pc' = "done"
    /\ result' = stage
    /\ tmpDescriptor' = "absent"
    /\ fsLog' = Append(fsLog, Event("tmp_remove", "tmp"))

\* build entered with the output directory check left out
BuildEnter_unchecked ==
    /\ pc \in {"idle", "done"}
    /\ runs < MaxRuns
    /\ \E f \in BOOLEAN :
        /\ force' = f
        /\ pc' = "prepare"
        /\ result' = "none"
    /\ runs' = runs + 1
    /\ fsLog' = <<>>
    /\ protocOut' = "none"
    /\ modules' = <<>>
    /\ modIdx' = 1
    /\ UNCHANGED <<outDirExists, files, modrs, tmpDescriptor, buildImpls>>
    /\ UNCHANGED <<identVars, implVars, treeVars>>

\* lib.rs 18-29: the call, and the check of the output directory
BuildEnter ==
    /\ pc \in {"idle", "done"}
    /\ runs < MaxRuns
    /\ \E f \in BOOLEAN :
        /\ force' = f
        /\ IF ~f /\ outDirExists
           THEN pc' = "done" /\ result' = "exists"
           ELSE pc' = "prepare" /\ result' = "none"
    /\ runs' = runs + 1
    /\ fsLog' = <<>>
    /\ protocOut' = "none"
    /\ modules' = <<>>
    /\ modIdx' = 1
    /\ UNCHANGED <<outDirExists, files, modrs, tmpDescriptor, buildImpls>>
    /\ UNCHANGED <<identVars, implVars, treeVars>>

\* lib.rs 31: base::prepare_out_dir, which creates the directory and may
\* remove what it held
PrepareOutDir ==
    /\ pc = "prepare"
    /\ \/ /\ pc' = "done" /\ result' = "prepare"
          /\ UNCHANGED <<outDirExists, files, modrs, fsLog>>
       \/ /\ pc' = "tempdir"
          /\ outDirExists' = TRUE
          /\ fsLog' = Append(fsLog, Event("prepare", "out_dir"))
          /\ \/ UNCHANGED <<files, modrs>>
             \/ /\ files' = [f \in FileNames |-> Absent]
                /\ modrs' = ModAbsent
          /\ UNCHANGED result
    /\ UNCHANGED <<force, protocOut, tmpDescriptor, modules, modIdx, buildImpls, runs>>
    /\ UNCHANGED <<identVars, implVars, treeVars>>

\* lib.rs 49-50: the temporary directory of the descriptor set
CreateTempdir ==
    /\ pc = "tempdir"
    /\ \/ /\ pc' = "done" /\ result' = "tempdir"
          /\ UNCHANGED fsLog
       \/ /\ pc' = "protoc"
          /\ fsLog' = Append(fsLog, Event("tmp_create", "tmp"))
          /\ UNCHANGED result
    /\ UNCHANGED <<force, outDirExists, files, modrs, protocOut, tmpDescriptor,
                   modules, modIdx, buildImpls, runs>>
    /\ UNCHANGED <<identVars, implVars, treeVars>>

\* lib.rs 52, 65-98: run_protoc. cmd.output() is an error only when the
\* compiler cannot be started; the exit status of the Output is not read.
\* A compiler that exits with a failure may or may not have written the
\* descriptor set.
RunProtoc ==
    /\ pc = "protoc"
    /\ \E out \in {"spawn_error", "exit_success", "exit_failure"} :
        /\ protocOut' = out
        /\ IF out = "spawn_error"
           THEN CompileFails("protoc")
           ELSE /\ \E d \in IF out = "exit_success"
                            THEN {"valid"}
                            ELSE {"absent", "invalid", "valid"} :
                     /\ tmpDescriptor' = d
                     /\ fsLog' = IF d = "absent" THEN fsLog
                                 ELSE Append(fsLog, Event("protoc", "tmp"))
                /\ pc' = "read_descriptor"
                /\ UNCHANGED result
    /\ UNCHANGED <<force, outDirExists, files, modrs, modules, modIdx, buildImpls, runs>>
    /\ UNCHANGED <<identVars, implVars, treeVars>>

\* lib.rs 54: std::fs::read(&file_descriptor_path)?
ReadDescriptor ==
    /\ pc = "read_descriptor"
    /\ IF tmpDescriptor = "absent"
       THEN CompileFails("read_descriptor")
       ELSE pc' = "decode" /\ UNCHANGED <<result, tmpDescriptor, fsLog>>
    /\ UNCHANGED <<force, outDirExists, files, modrs, protocOut, modules, modIdx,
                   buildImpls, runs>>
    /\ UNCHANGED <<identVars, implVars, treeVars>>

\* lib.rs 55-56: FileDescriptorSet::decode
Decode ==
    /\ pc = "decode"
    /\ IF tmpDescriptor = "invalid"
       THEN CompileFails("decode")
       ELSE pc' = "generate_impls" /\ UNCHANGED <<result, tmpDescriptor, fsLog>>
    /\ UNCHANGED <<force, outDirExists, files, modrs, protocOut, modules, modIdx,
                   buildImpls, runs>>
    /\ UNCHANGED <<identVars, implVars, treeVars>>

\* lib.rs 58: the accessor text, kept until the end of build
GenerateImpls ==
    /\ pc = "generate_impls"
    /\ buildImpls' \in ImplTexts
    /\ pc' = "generate"
    /\ UNCHANGED <<force, outDirExists, files, modrs, protocOut, tmpDescriptor,
                   modules, modIdx, result, fsLog, runs>>
    /\ UNCHANGED <<identVars, implVars, treeVars>>

\* lib.rs 118-137: self.prost.generate(requests)?
Generate ==
    /\ pc = "generate"
    /\ \/ CompileFails("generate") /\ UNCHANGED <<modules, modIdx>>
       \/ /\ modules' \in ModuleLists
          /\ modIdx' = 1
          /\ pc' = "write"
          /\ UNCHANGED <<result, tmpDescriptor, fsLog>>
    /\ UNCHANGED <<force, outDirExists, files, modrs, protocOut, buildImpls, runs>>
    /\ UNCHANGED <<identVars, implVars, treeVars>>

\* lib.rs 138-153: one iteration of the loop over the generated modules
WriteModule ==
    /\ pc = "write"
    /\ modIdx <= Len(modules)
    /\ LET file_name == modules[modIdx].file_name
           content == modules[modIdx].content
           previous_content == fs_read(files[file_name])
       IN  IF content_changed(previous_content, content)
           THEN IF fs_write_ok(files[file_name])
                THEN /\ files' = [files EXCEPT ![file_name] = fs_written(@, content)]
                     /\ fsLog' = Append(fsLog, Event("write", file_name))
                     /\ modIdx' = modIdx + 1
                     /\ UNCHANGED <<pc, result, tmpDescriptor>>
                ELSE /\ pc' = "done"
                     /\ result' = "write"
                     /\ tmpDescriptor' = "absent"
                     /\ fsLog' = Append(fsLog, Event("tmp_remove", "tmp"))
                     /\ UNCHANGED <<files, modIdx>>
           ELSE /\ modIdx' = modIdx + 1
                /\ UNCHANGED <<pc, result, tmpDescriptor, files, fsLog>>
    /\ UNCHANGED <<force, outDirExists, modrs, protocOut, modules, buildImpls, runs>>
    /\ UNCHANGED <<identVars, implVars, treeVars>>

\* lib.rs 155, 62: the loop is over; compile returns and drops the TempDir
CompileReturn ==
    /\ pc = "write"
    /\ modIdx > Len(modules)
    /\ pc' = "refactor"
    /\ tmpDescriptor' = "absent"
    /\ fsLog' = Append(fsLog, Event("tmp_remove", "tmp"))
    /\ UNCHANGED <<force, outDirExists, files, modrs, protocOut, modules, modIdx,
                   buildImpls, result, runs>>
    /\ UNCHANGED <<identVars, implVars, treeVars>>

\* lib.rs 37: base::refactor, which lays out the modules and writes the
\* module declarations to mod.rs
Refactor ==
    /\ pc = "refactor"
    /\ \/ /\ pc' = "done" /\ result' = "refactor"
          /\ UNCHANGED <<modrs, fsLog>>
       \/ /\ pc' = "append"
          /\ modrs' \in {[exists |-> TRUE, text |-> <<"decls">>], modrs}
          /\ fsLog' = Append(fsLog, Event("refactor", "out_dir"))
          /\ UNCHANGED result
    /\ UNCHANGED <<force, outDirExists, files, protocOut, tmpDescriptor, modules,
                   modIdx, buildImpls, runs>>
    /\ UNCHANGED <<identVars, implVars, treeVars>>

\* the last step opening mod.rs for a truncating write
AppendImpls_truncating ==
    /\ pc = "append"
    /\ pc' = "done"
    /\ IF ~modrs.exists
       THEN result' = "open_mod" /\ UNCHANGED <<modrs, fsLog>>
       ELSE /\ result' = "ok"
            /\ modrs' = [exists |-> TRUE, text |-> <<buildImpls>>]
            /\ fsLog' = Append(fsLog, Event("append", "mod.rs"))
    /\ UNCHANGED <<force, outDirExists, files, protocOut, tmpDescriptor, modules,
                   modIdx, buildImpls, runs>>
    /\ UNCHANGED <<identVars, implVars, treeVars>>

\* lib.rs 39-45: mod.rs opened with write and append (not create), and the
\* accessor text written at its end
AppendImpls ==
    /\ pc = "append"
    /\ pc' = "done"
    /\ IF ~modrs.exists
       THEN result' = "open_mod" /\ UNCHANGED <<modrs, fsLog>>
       ELSE \/ /\ result' = "ok"
               /\ modrs' = [modrs EXCEPT !.text = Append(@, buildImpls)]
               /\ fsLog' = Append(fsLog, Event("append", "mod.rs"))
            \/ /\ result' = "append"
               /\ UNCHANGED <<modrs, fsLog>>
    /\ UNCHANGED <<force, outDirExists, files, protocOut, tmpDescriptor, modules,
                   modIdx, buildImpls, runs>>
    /\ UNCHANGED <<identVars, implVars, treeVars>>

-----------------------------------------------------------------------------
(* The module declarations of mod.rs: the namespace tree of the packages   *)
(* and the nested `pub mod` declarations emitted from it                   *)

\* ASCII order of the characters of package names
AsciiOrder == DigitChars \o UpperChars \o <<"_">> \o LowerChars

CharCode(c) == IndexIn(AsciiOrder, c)

RECURSIVE LexLess(_, _)
\* a < b in the lexicographic order of strings
LexLess(a, b) ==
    IF b = <<>> THEN FALSE
    ELSE IF a = <<>> THEN TRUE
    ELSE IF Head(a) = Head(b) THEN LexLess(Tail(a), Tail(b))
    ELSE CharCode(Head(a)) < CharCode(Head(b))

RECURSIVE split_dots(_, _)
\* package.split('.'): cur is the segment collected so far
split_dots(s, cur) ==
    IF s = <<>> THEN <<cur>>
    ELSE IF Head(s) = "." THEN <<cur>> \o split_dots(Tail(s), <<>>)
    ELSE split_dots(Tail(s), Append(cur, Head(s)))

\* the segments of a dotted package name; the empty name has none
segments(package) == IF package = <<>> THEN <<>> ELSE split_dots(package, <<>>)

EmptyTree == [nodes |-> {<<>>}, terminal |-> {}]

\* look up or create the node of every prefix, and mark the last terminal
insert(t, path) ==
    [nodes |-> t.nodes \cup {SubSeq(path, 1, k) : k \in 0..Len(path)},
     terminal |-> t.terminal \cup {path}]

\* the segments of the children of a node
children(t, node) ==
    {q[Len(q)] : q \in {n \in t.nodes : /\ Len(n) = Len(node) + 1
                                         /\ SubSeq(n, 1, Len(node)) = node}}

containers(t) == {n \in t.nodes : children(t, n) # {}}

\* the orders in which a map of children can be iterated
Orderings(S) ==
    {o \in [1..Cardinality(S) -> S] : \A i, j \in DOMAIN o : i # j => o[i] # o[j]}

\* the packages of the compile test
FixturePackages ==
    { <<"g", "r", "p", "c", "_", "b", "u", "i", "l", "d", ".", "r", "e", "q", "u", "e", "s", "t", ".", "h", "e", "l", "l", "o", "w", "o", "r", "l", "d">>,
      <<"g", "r", "p", "c", "_", "b", "u", "i", "l", "d", ".", "m", "e", "s", "s", "a", "g", "e", "s", ".", "b", "u", "i", "l", "t", "i", "n">>,
      <<"g", "r", "p", "c", "_", "b", "u", "i", "l", "d", ".", "c", "l", "i", "e", "n", "t", ".", "h", "e", "l", "l", "o", "w", "o", "r", "l", "d">>,
      <<"g", "r", "p", "c", "_", "b", "u", "i", "l", "d", ".", "r", "e", "s", "p", "o", "n", "s", "e", ".", "h", "e", "l", "l", "o", "w", "o", "r", "l", "d">>,
      <<"g", "o", "o", "g", "l", "e", ".", "p", "r", "o", "t", "o", "b", "u", "f">> }

\* the children of grpc_build in the order the compile test's mod.rs
\* declares them
FixtureChildren ==
    << <<"r", "e", "q", "u", "e", "s", "t">>,
       <<"m", "e", "s", "s", "a", "g", "e", "s">>,
       <<"c", "l", "i", "e", "n", "t">>,
       <<"r", "e", "s", "p", "o", "n", "s", "e">> >>

-----------------------------------------------------------------------------
(* Values of the variables of the calls a specification does not make *)

IdentIdle ==
    /\ identPc = "idle" /\ pb_ident = <<>> /\ extern_paths = {}
    /\ identResult = TRUE

ImplsIdle ==
    /\ implPc = "idle" /\ file = <<>> /\ implExtern = {} /\ prost_types = FALSE
    /\ kept = <<>> /\ impls = <<>>

BuildIdle ==
    /\ pc = "idle" /\ force = FALSE /\ outDirExists = FALSE
    /\ files = [f \in FileNames |-> Absent] /\ modrs = ModAbsent
    /\ protocOut = "none" /\ tmpDescriptor = "absent" /\ modules = <<>>
    /\ modIdx = 1 /\ buildImpls = "none" /\ result = "none" /\ fsLog = <<>>
    /\ runs = 0

TreeIdle ==
    /\ treePc = "idle" /\ packages = <<>> /\ tree = EmptyTree /\ emitted = <<>>

-----------------------------------------------------------------------------
(* SpecIdent: calls of include_ident *)

\* characters of the identifiers enumerated exhaustively
IdentAlphabet == {"a", "b", "."}

\* the identifiers of the documented prefix-exclusion example
ExampleIdents ==
    { <<"a", ".", "b">>, <<"a", ".", "b", ".", "C">>,
      <<"a", ".", "b", ".", "C", ".", "D">>, <<"a", ".", "b", "c">>,
      <<"a", ".", "c">> }

Idents == StringsUpTo(IdentAlphabet, MaxIdentLen) \cup ExampleIdents

\* the paths an extern set is drawn from
ExternCandidates ==
    { <<"a", ".", "b">>, <<"a">>, <<>>, <<".", "a">>, <<"a", ".">>, <<"b">> }

InitIdent ==
    /\ identPc = "call"
    /\ pb_ident \in Idents
    /\ extern_paths \in SUBSET ExternCandidates
    /\ identResult = TRUE
    /\ ImplsIdle /\ BuildIdle /\ TreeIdle

IncludeIdent ==
    /\ identPc = "call"
    /\ identResult' = include_ident(extern_paths, pb_ident)
    /\ identPc' = "done"
    /\ UNCHANGED <<pb_ident, extern_paths, implVars, buildVars, treeVars>>

NextIdent == IncludeIdent

SpecIdent == InitIdent /\ [][NextIdent]_vars

-----------------------------------------------------------------------------
(* SpecImpls: calls of generate_impls *)

PkgRoot == <<>>
PkgAB == <<"a", ".", "b">>
PkgGoogle == <<"g", "o", "o", "g", "l", "e", ".", "p", "r", "o", "t", "o", "b", "u", "f">>
PkgHelloworld ==
    <<"g", "r", "p", "c", "_", "b", "u", "i", "l", "d", ".", "r", "e", "s", "p", "o", "n", "s", "e", ".", "h", "e", "l", "l", "o", "w", "o", "r", "l", "d">>

NameHelloReply == <<"H", "e", "l", "l", "o", "R", "e", "p", "l", "y">>
NameHelloSnake == <<"h", "e", "l", "l", "o", "_", "r", "e", "p", "l", "y">>
NameEmpty == <<"E", "m", "p", "t", "y">>

Packages == {PkgRoot, PkgAB, PkgGoogle, PkgHelloworld}

\* the message lists of a file descriptor
MessageLists ==
    { <<>>, <<NameHelloReply>>, <<NameHelloSnake>>, <<NameEmpty, NameHelloReply>> }

Descriptors == [package : Packages, message_type : MessageLists]

DescriptorSets == UNION {[1..k -> Descriptors] : k \in 0..MaxFiles}

\* the extern paths configured on the builder
ExternConfigs ==
    { {}, {<<".">> \o PkgAB}, {<<".">> \o NameHelloSnake} }

InitImpls ==
    /\ implPc = "call"
    /\ file \in DescriptorSets
    /\ implExtern \in ExternConfigs
    /\ prost_types \in BOOLEAN
    /\ kept = <<>>
    /\ impls = <<>>
    /\ IdentIdle /\ BuildIdle /\ TreeIdle

GenerateImplsCall ==
    /\ implPc = "call"
    /\ LET r == generate_impls(file, implExtern, prost_types)
       IN  /\ implExtern' = r.extern_paths
           /\ kept' = r.kept
           /\ impls' = Concat(r.kept)
    /\ implPc' = "done"
    /\ UNCHANGED <<file, prost_types, identVars, buildVars, treeVars>>

NextImpls == GenerateImplsCall

SpecImpls == InitImpls /\ [][NextImpls]_vars

-----------------------------------------------------------------------------
(* Spec: calls of Builder::build on one output directory *)

Init ==
    /\ pc = "idle"
    /\ force = FALSE
    /\ outDirExists \in BOOLEAN
    /\ files \in IF outDirExists THEN [FileNames -> Entries]
                 ELSE {[f \in FileNames |-> Absent]}
    /\ modrs \in IF outDirExists
                 THEN {ModAbsent, [exists |-> TRUE, text |-> <<"decls">>]}
                 ELSE {ModAbsent}
    /\ protocOut = "none"
    /\ tmpDescriptor = "absent"
    /\ modules = <<>>
    /\ modIdx = 1
    /\ buildImpls = "none"
    /\ result = "none"
    /\ fsLog = <<>>
    /\ runs = 0
    /\ IdentIdle /\ ImplsIdle /\ TreeIdle

Next ==
    \/ BuildEnter
    \/ PrepareOutDir
    \/ CreateTempdir
    \/ RunProtoc
    \/ ReadDescriptor
    \/ Decode
    \/ GenerateImpls
    \/ Generate
    \/ WriteModule
    \/ CompileReturn
    \/ Refactor
    \/ AppendImpls

Spec == Init /\ [][Next]_vars

-----------------------------------------------------------------------------
(* SpecTree: the module declarations emitted for a list of packages *)

\* the lists of distinct packages handed to the tree builder
PackageLists ==
    UNION {Orderings(S) : S \in SUBSET FixturePackages}

InitTree ==
    /\ treePc = "insert"
    /\ packages \in PackageLists
    /\ tree = EmptyTree
    /\ emitted = <<>>
    /\ IdentIdle /\ ImplsIdle /\ BuildIdle

InsertPackage ==
    /\ treePc = "insert"
    /\ packages # <<>>
    /\ tree' = insert(tree, segments(Head(packages)))
    /\ packages' = Tail(packages)
    /\ UNCHANGED <<treePc, emitted, identVars, implVars, buildVars>>

StartEmit ==
    /\ treePc = "insert"
    /\ packages = <<>>
    /\ treePc' = IF containers(tree) = {} THEN "done" ELSE "emit"
    /\ UNCHANGED <<packages, tree, emitted, identVars, implVars, buildVars>>

\* one container is declared: its children in the iteration order of its map
EmitContainer ==
    /\ treePc = "emit"
    /\ LET pending == containers(tree) \ DOMAIN emitted
           node == CHOOSE n \in pending : \A m \in pending : Len(n) <= Len(m)
       IN  /\ \E order \in Orderings(children(tree, node)) :
                emitted' = (node :> order) @@ emitted
           /\ treePc' = IF pending = {node} THEN "done" ELSE "emit"
    /\ UNCHANGED <<packages, tree, identVars, implVars, buildVars>>

NextTree == InsertPackage \/ StartEmit \/ EmitContainer

SpecTree == InitTree /\ [][NextTree]_vars

-----------------------------------------------------------------------------
(* Reading an accessor declaration back *)

\* the positions of the double quotes of a declaration
QuotePositions(text) == {i \in DOMAIN text : text[i] = "\""}

Min(S) == CHOOSE x \in S : \A y \in S : x <= y
Max(S) == CHOOSE x \in S : \A y \in S : x >= y

RECURSIVE unescape(_)
\* the string a Rust string literal's body denotes
unescape(body) ==
    IF body = <<>> THEN <<>>
    ELSE IF Head(body) = "\\" /\ Len(body) >= 2
         THEN <<IF body[2] = "n" THEN "\n" ELSE body[2]>>
                  \o unescape(SubSeq(body, 3, Len(body)))
    ELSE <<Head(body)>> \o unescape(Tail(body))

\* the string message_name() of the declaration returns
AccessorValue(text) ==
    LET q == QuotePositions(text)
    IN  unescape(SubSeq(text, Min(q) + 1, Max(q) - 1))

\* the type the declaration's impl block is for
ImplTarget(text) ==
    LET rest == SubSeq(text, Len(ImplOpen) + 1, Len(text))
        sp == Min({i \in DOMAIN rest : rest[i] = " "})
    IN  SubSeq(rest, 1, sp - 1)

\* P.M, or M alone for the empty package
DottedName(P, M) == IF P = <<>> THEN M ELSE P \o <<".">> \o M

EndsWith(s, t) == Len(t) <= Len(s) /\ SubSeq(s, Len(s) - Len(t) + 1, Len(s)) = t

Names == {NameHelloReply, NameHelloSnake, NameEmpty}

\* how many times message M of package P occurs in a descriptor set
OccurrencesIn(fileSeq, P, M) ==
    Cardinality({ki \in UNION {{<<k, i>> : i \in DOMAIN fileSeq[k].message_type} :
                                  k \in DOMAIN fileSeq} :
                    /\ fileSeq[ki[1]].package = P
                    /\ fileSeq[ki[1]].message_type[ki[2]] = M})

-----------------------------------------------------------------------------
(* Claims *)

\* C1: for every top-level message M of a file with package P, the accessor
\* derive_named_messages produces returns P.M (M alone when P is empty, with
\* no leading dot), M in its original casing, while the impl block is for
\* the UpperCamel type name; the accessor of a message that passes the
\* filter is among the collected ones.
C1_AccessorReturnsDottedName ==
    implPc = "done" =>
        \A k \in DOMAIN file : \A i \in DOMAIN file[k].message_type :
            LET P == file[k].package
                M == file[k].message_type[i]
                d == derive_named_messages(file[k])[i]
            IN  /\ AccessorValue(d.derive) = DottedName(P, M)
                /\ EndsWith(ImplTarget(d.derive), to_upper_camel(M))
                /\ include_ident(implExtern, d.name)
                       => \E j \in DOMAIN kept : kept[j] = d.derive

\* C1 witness: HelloReply of grpc_build.response.helloworld and hello_reply
\* of the empty package have both been given accessors.
C1_Witness ==
    /\ implPc = "done"
    /\ \E j \in DOMAIN kept :
          AccessorValue(kept[j]) = PkgHelloworld \o <<".">> \o NameHelloReply
    /\ \E j \in DOMAIN kept :
          /\ AccessorValue(kept[j]) = NameHelloSnake
          /\ ImplTarget(kept[j]) = NameHelloReply

\* C2: include_ident(n) is false exactly when n is in the extern set or a
\* prefix of n cut immediately before one of its dots is; a member that is
\* only a textual prefix of n does not exclude n.
C2_IncludeIdentPrefixRule ==
    identPc = "done" =>
        (identResult = FALSE <=>
            \/ pb_ident \in extern_paths
            \/ \E i \in DOMAIN pb_ident :
                  pb_ident[i] = "." /\ SubSeq(pb_ident, 1, i - 1) \in extern_paths)

\* C2 witness: with the extern set {a.b}, a.bc has been found local.
C2_Witness ==
    /\ identPc = "done"
    /\ extern_paths = {<<"a", ".", "b">>}
    /\ pb_ident = <<"a", ".", "b", "c">>
    /\ identResult = TRUE

\* C3: the write step overwrites a module's file only when the file is
\* absent or its bytes differ from the new content (so a second run with the
\* same bytes writes nothing).
C3_WriteOnlyWhenChanged ==
    [][\A f \in FileNames :
          fsLog' = Append(fsLog, Event("write", f))
              => \/ files[f].kind = "absent"
                 \/ files[f].bytes # modules[modIdx].content]_vars

\* C4: build called with force = false on an existing output directory
\* returns the error at once: nothing is prepared, no compiler is run, no
\* file and no mod.rs is touched.
C4_ExistingOutDirRejected ==
    /\ [][(runs' = runs + 1 /\ ~force' /\ outDirExists)
            => /\ pc' = "done" /\ result' = "exists"
               /\ fsLog' = <<>>
               /\ UNCHANGED <<outDirExists, files, modrs, tmpDescriptor>>]_vars
    /\ []((pc = "done" /\ result = "exists")
            => fsLog = <<>> /\ protocOut = "none")

\* C4 witness: a call without force has been rejected on a directory that
\* holds files.
C4_Witness ==
    /\ pc = "done"
    /\ result = "exists"
    /\ ~force
    /\ outDirExists
    /\ \E f \in FileNames : files[f].kind = "file"

\* C5: the text generate_impls returns is the same for every descriptor set
\* holding the same messages, whatever the order of the files and of the
\* messages in them.
C5_OrderIndependent ==
    implPc = "done" =>
        \A g \in DescriptorSets :
            (\A P \in Packages, M \in Names :
                OccurrencesIn(g, P, M) = OccurrencesIn(file, P, M))
            => Concat(generate_impls(g, implExtern, prost_types).kept) = impls

\* C5 reached: two messages of two files have been given accessors.
C5_TwoFilesDone ==
    /\ implPc = "done"
    /\ Len(file) = 2
    /\ file[1].package # file[2].package
    /\ Len(kept) = 2

\* C6: in the write step a read of the existing file that fails for another
\* reason than the file not existing makes the build fail, and the file is
\* not written.
C6_ReadErrorIsFatal ==
    [][(/\ pc = "write"
        /\ modIdx <= Len(modules)
        /\ ~fs_read(files[modules[modIdx].file_name]).ok
        /\ fs_read(files[modules[modIdx].file_name]).error # "NotFound")
          => /\ pc' = "done"
             /\ result' = "write"
             /\ files' = files]_vars

\* C6 reached: the module's file could not be read and was written.
C6_WroteAfterReadError ==
    /\ pc = "write"
    /\ modIdx = 2
    /\ files[modules[1].file_name].kind = "unreadable"
    /\ fsLog[Len(fsLog)] = Event("write", modules[1].file_name)

\* C7: whenever the compiler cannot be started or runs and reports failure,
\* build has returned the error of that stage and no later stage runs.
C7_ProtocFailureIsFatal ==
    protocOut \in {"spawn_error", "exit_failure"}
        => pc = "done" /\ result = "protoc"

\* C7 reached: the build ended successfully after a compiler failure.
C7_BuiltAfterProtocFailure ==
    /\ protocOut = "exit_failure"
    /\ pc = "done"
    /\ result = "ok"

\* C8: the accessor text is appended to mod.rs after every module of the
\* run has been persisted and after the refactor step; the append is the last
\* filesystem mutation of the run, and it extends what mod.rs held.
C8_AppendIsLast ==
    /\ [](\A i \in DOMAIN fsLog :
            fsLog[i].op = "append"
                => /\ i = Len(fsLog)
                   /\ \E j \in 1..(i - 1) : fsLog[j].op = "refactor"
                   /\ modIdx > Len(modules)
                   /\ \A m \in DOMAIN modules :
                         files[modules[m].file_name].bytes = modules[m].content)
    /\ []((pc = "done" /\ result = "ok")
            => fsLog # <<>> /\ fsLog[Len(fsLog)].op = "append")
    /\ [][modrs' # modrs /\ pc = "append"
            => /\ modrs.exists
               /\ modrs'.exists
               /\ modrs'.text = modrs.text \o <<buildImpls>>]_vars

\* C8 witness: a build that wrote a module has ended by appending to a
\* mod.rs that held declarations.
C8_Witness ==
    /\ pc = "done"
    /\ result = "ok"
    /\ Len(modrs.text) >= 2
    /\ modrs.text[Len(modrs.text)] = buildImpls
    /\ \E i \in DOMAIN fsLog : fsLog[i].op = "write"

\* the extern paths in force: the configured ones, and the google.protobuf
\* ones when the well-known-types flag is set
PathsInForce ==
    (implExtern \ add_prost_types({}))
        \cup (IF prost_types THEN add_prost_types({}) ELSE {})

\* C9: generate_impls emits exactly one accessor for each top-level message
\* whose fully-qualified name passes include_ident against the configured
\* paths plus, with prost_types set, the google.protobuf paths, and none for
\* any other message; with the flag set no message of google.protobuf gets one.
C9_OneAccessorPerLocalMessage ==
    implPc = "done" =>
        LET value == [j \in DOMAIN kept |-> AccessorValue(kept[j])]
            paths == PathsInForce
        IN  /\ \A P \in Packages, M \in Names :
                  Cardinality({j \in DOMAIN kept : value[j] = DottedName(P, M)})
                    = IF include_ident(paths, fully_qualified_name(P, M))
                      THEN OccurrencesIn(file, P, M)
                      ELSE 0
            /\ \A j \in DOMAIN kept : \E P \in Packages, M \in Names :
                  value[j] = DottedName(P, M)
            /\ ~prost_types => implExtern \in ExternConfigs
            /\ prost_types =>
                  \A j \in DOMAIN kept :
                      ~StartsWith(value[j], PkgGoogle \o <<".">>)

\* C9 witness: with the flag set, a google.protobuf message that is not one
\* of the listed types was left out and another message was given an accessor.
C9_Witness ==
    /\ implPc = "done"
    /\ prost_types
    /\ Len(file) = 2
    /\ file[1] = [package |-> PkgGoogle, message_type |-> <<NameHelloReply>>]
    /\ file[2].package = PkgAB
    /\ Len(kept) = 1

\* C10: in the emitted module declarations every package prefix is one
\* container and the children of every container are in lexicographic order
\* of their names.
C10_ChildrenLexicographic ==
    \A n \in DOMAIN emitted :
        \A i \in 1..(Len(emitted[n]) - 1) :
            LexLess(emitted[n][i], emitted[n][i + 1])

\* C10 reached: the declarations of the compile test's mod.rs.
C10_FixtureOrderEmitted ==
    /\ treePc = "done"
    /\ <<<<"g", "r", "p", "c", "_", "b", "u", "i", "l", "d">>>> \in DOMAIN emitted
    /\ emitted[<<<<"g", "r", "p", "c", "_", "b", "u", "i", "l", "d">>>>] = FixtureChildren

=============================================================================
